---- MODULE Spec2Model ----
(***************************************************************************)
(* A model of the git_lock_sign_jlx server extension: the Lock, Unlock,    *)
(* Status and Commit request handlers (handlers.py) and the services they  *)
(* drive (notebook_service.py, git_service.py, gpg_service.py,             *)
(* user_service.py).  The git repository, the GnuPG keyring and the file   *)
(* system are the environment of the handlers.                             *)
(***************************************************************************)
EXTENDS Integers, Sequences, FiniteSets, TLC

VARIABLES
    disk,      \* the notebook file on disk: <<>> (no file) or <<document>>
    commits,   \* the repository's object store: commit id -> commit record
    head,      \* the commit id HEAD resolves to, 0 while HEAD is unborn
    index,     \* the index entry of the notebook file: <<>> or <<document>>
    env,       \* git identity, GnuPG keyring and user.signingkey
    client,    \* the document held by the caller (the editor's copy)
    lockRec,   \* the last Lock delivered: <<>> or <<[doc, env]>>, the document
               \* the caller held after it and the configuration it ran under
    used,      \* how many requests were served and configuration changes made
    resp,      \* the response in flight and what the handler called
    procs,     \* the Lock invocations in progress when several server
               \* processes work on one repository, <<>> when there is one
    others     \* another tracked file of the repository: the version of
               \* its content in the working tree and in the index

vars ==
    <<disk, commits, head, index, env, client, lockRec, used, resp, procs, others>>

(***************************************************************************)
(* Bounds of the model.                                                    *)
(***************************************************************************)
MaxRequests == 2
MaxReconfigs == 1
MaxCells == 1
MaxOutputs == 1

(***************************************************************************)
(* Dictionaries: a Python dict is a function from its keys.                *)
(***************************************************************************)
Get(d, k, default) == IF k \in DOMAIN d THEN d[k] ELSE default

\* d.update(u)
Update(d, u) ==
    [k \in DOMAIN d \cup DOMAIN u |-> IF k \in DOMAIN u THEN u[k] ELSE d[k]]

IsSuffix(s, t) ==
    /\ Len(s) <= Len(t)
    /\ \A i \in 1..Len(s) : s[i] = t[Len(t) - Len(s) + i]

(***************************************************************************)
(* Documents.  A document is the JSON object the caller submits:           *)
(*   hasCells  the object has a "cells" entry that is a list               *)
(*   cells     that list; a cell has a source, outputs and the volatile    *)
(*             cell-level execution count                                  *)
(*   hasMeta   the object has a "metadata" entry                           *)
(*   kernel    the rest of the document-level metadata                     *)
(*   sig       metadata["git_lock_sign"]: <<>> when the key is absent,     *)
(*             <<d>> when it holds the dict d                              *)
(***************************************************************************)
Sources == {"a", "b"}

MkCell(src) == [source |-> src, execution_count |-> 0, outputs |-> <<>>]

MkDoc(srcs, k) ==
    [hasCells |-> TRUE, cells |-> [i \in 1..Len(srcs) |-> MkCell(srcs[i])],
     hasMeta |-> TRUE, kernel |-> k, sig |-> <<>>]

\* A JSON object without a cell list and without a metadata entry.
BareDoc == [hasCells |-> FALSE, cells |-> <<>>, hasMeta |-> FALSE,
            kernel |-> 0, sig |-> <<>>]

InitialDocs == {MkDoc([i \in 1..n |-> "a"], 0) : n \in 1..MaxCells} \cup {BareDoc}

(***************************************************************************)
(* NotebookService                                                         *)
(***************************************************************************)
\* An output with its volatile parts normalised: execution_count becomes
\* null, transient is dropped, metadata becomes {}.
CleanOutputKeepCount(output) ==
    [k \in DOMAIN output \ {"transient"} |->
        IF k = "metadata" THEN "{}" ELSE output[k]]

CleanOutput(output) ==
    [k \in DOMAIN output \ {"transient"} |->
        IF k = "execution_count" THEN "null"
        ELSE IF k = "metadata" THEN "{}"
        ELSE output[k]]

EssentialCell(cell) ==
    [source |-> cell.source,
     outputs |-> [j \in 1..Len(cell.outputs) |-> CleanOutput(cell.outputs[j])]]

\* What is hashed: the list of {source, outputs} per cell, or the whole
\* object when it has no cell list.
PrepareOutputsOnly(notebook_content) ==
    IF ~notebook_content.hasCells
    THEN [cells |-> <<>>, whole |-> <<notebook_content>>]
    ELSE [cells |-> [i \in 1..Len(notebook_content.cells) |->
                        [EssentialCell(notebook_content.cells[i])
                            EXCEPT !.source = ""]],
          whole |-> <<>>]

PrepareContentForHashing(notebook_content) ==
    IF ~notebook_content.hasCells
    THEN [cells |-> <<>>, whole |-> <<notebook_content>>]
    ELSE [cells |-> [i \in 1..Len(notebook_content.cells) |->
                        EssentialCell(notebook_content.cells[i])],
          whole |-> <<>>]

\* SHA-256 of the canonical JSON text (sorted keys, fixed separators) of the
\* prepared content.  Two prepared contents have the same canonical text
\* exactly when they are equal, and the digest is taken as collision free,
\* so the digest is represented by the prepared content itself.
GenerateContentHash(notebook_content) ==
    PrepareContentForHashing(notebook_content)

\* The stored content_hash of a metadata dict that has none.
NoHash == [none |-> TRUE]

GetSignatureMetadata(notebook_content) ==
    IF notebook_content.hasMeta THEN notebook_content.sig ELSE <<>>

\* The document with metadata["git_lock_sign"] deleted.
WithoutSignatureMetadata(notebook_content) ==
    [notebook_content EXCEPT !.sig = <<>>]

\* The document written by save_signature_metadata.
WithSignatureMetadata(notebook_content, signature_metadata) ==
    [notebook_content EXCEPT !.hasMeta = TRUE, !.sig = <<signature_metadata>>]

(***************************************************************************)
(* The environment read by the services.                                   *)
(*   user     git config user.name / user.email (NoUser: not configured)   *)
(*   keyring  the private keys GnuPG lists                                 *)
(*   cfgKey   git config user.signingkey, <<>> when not configured         *)
(* A key id is a string of hexadecimal digits; it is held as the sequence  *)
(* of its 8-digit blocks, so that the suffix tests of the code are tests   *)
(* on these sequences.  gnupg reports a fingerprint and a 16-digit keyid   *)
(* in upper case; git prints the 16-digit id of the key that signed.       *)
(***************************************************************************)
Keys == {"K1", "K2"}

Fingerprint(k) ==
    IF k = "K1" THEN <<"F1F1F1F1", "A1A1A1A1", "B1B1B1B1">>
                ELSE <<"F2F2F2F2", "A2A2A2A2", "B2B2B2B2">>

KeyId(k) == SubSeq(Fingerprint(k), 2, 3)

UpperBlock(b) ==
    CASE b = "a1a1a1a1" -> "A1A1A1A1"
      [] b = "b1b1b1b1" -> "B1B1B1B1"
      [] OTHER -> b

Upper(s) == [i \in 1..Len(s) |-> UpperBlock(s[i])]

LowerKeyId1 == <<"a1a1a1a1", "b1b1b1b1">>

ConfiguredKeys == {<<>>, KeyId("K1"), LowerKeyId1, KeyId("K2")}

NoUser == [name |-> "", email |-> ""]
Alice == [name |-> "alice", email |-> "alice@x"]
Users == {Alice, [name |-> "alice", email |-> "other@x"],
          [name |-> "bob", email |-> "alice@x"]}

Keyrings == {{}, {"K1"}, {"K2"}}

Envs == [user : Users \cup {NoUser}, keyring : Keyrings, cfgKey : ConfiguredKeys]

(***************************************************************************)
(* UserService and GPGService                                              *)
(***************************************************************************)
GetUserInfo(e) == e.user

IsGpgAvailable(an) == an # "gpg_down"

HasSigningKeyAlways(e) == TRUE

HasSigningKey(e) == e.keyring # {}

GetConfiguredSigningKey(e) == e.cfgKey

\* The key is among the secret keys (by keyid, or as a suffix of a
\* fingerprint once upper-cased) and signing a test string with it works.
CanSignWithKey(e, key_id, an) ==
    /\ \E k \in e.keyring :
          \/ KeyId(k) = key_id
          \/ IsSuffix(Upper(key_id), Fingerprint(k))
    /\ an # "sign_probe_fail"

(***************************************************************************)
(* The repository.  A commit records its parent (0: a root commit), the    *)
(* key that signed it ("none": unsigned), its author and the notebook file *)
(* of its tree.  A world is the part of the state a handler can change.    *)
(***************************************************************************)
NotebookPath == "nb"

PathOf(an) ==
    IF an = "outside_repo" THEN "out" ELSE IF an = "no_path" THEN "" ELSE NotebookPath

World ==
    [disk |-> disk, commits |-> commits, head |-> head, index |-> index,
     others |-> others]

\* The other file as committed: in the working tree and the index it has
\* the version of HEAD (version 0 before any commit).
Unmodified == [disk |-> 0, index |-> 0]

TreeOf(w, c) == IF c = 0 THEN <<>> ELSE w.commits[c].tree

\* The version of the other file in the tree of commit c.
OtherOf(w, c) == IF c = 0 THEN 0 ELSE w.commits[c].other

\* git commit has something to commit: the index differs from the tree of c.
IndexDiffers(w, c) == w.index # TreeOf(w, c) \/ w.others.index # OtherOf(w, c)

IsGitRepository(path) == path = NotebookPath

\* The secret key gpg selects for user.signingkey ("none": no such key).
GitSigningKey(e) ==
    IF e.cfgKey # <<>> /\ \E k \in e.keyring : IsSuffix(Upper(e.cfgKey), Fingerprint(k))
    THEN CHOOSE k \in e.keyring : IsSuffix(Upper(e.cfgKey), Fingerprint(k))
    ELSE "none"

\* git show --format=%G? : the signature status of a commit.
SignatureStatus(w, c) == IF w.commits[c].key = "none" THEN "N" ELSE "G"

IsSignedStatusGoodOnly(code) == code \in {"G", "U"}

IsSignedStatus(code) == code \in {"G", "U", "X", "Y"}

\* git show --show-signature --format=%G? -s: what the command returns.  The
\* output of gpg, when there is a signature, comes before the status line.
GitShowSignature(w, c, an) ==
    IF an = "show_fail"
    THEN [timeout |-> FALSE, returncode |-> 128, stdout |-> <<>>]
    ELSE [timeout |-> FALSE, returncode |-> 0,
          stdout |-> IF SignatureStatus(w, c) = "N" THEN <<"N">>
                     ELSE <<"gpg: Signature made", SignatureStatus(w, c)>>]

\* The lines of the output that are not blank, in order.
RECURSIVE NonBlankLines(_)
NonBlankLines(stdout) ==
    IF stdout = <<>> THEN <<>>
    ELSE IF Head(stdout) = "" THEN NonBlankLines(Tail(stdout))
    ELSE <<Head(stdout)>> \o NonBlankLines(Tail(stdout))

\* _is_commit_signed on the outcome of the command: the last line that is
\* not blank is the status; a timeout, an error and no output give False.
IsCommitSignedResult(result) ==
    LET lines == NonBlankLines(result.stdout)
    IN  /\ ~result.timeout
        /\ result.returncode = 0
        /\ lines # <<>>
        /\ IsSignedStatus(lines[Len(lines)])

IsCommitSigned(w, c, an) == IsCommitSignedResult(GitShowSignature(w, c, an))

\* git verify-commit exits 0 for a good signature only.
VerifyCommitSignatureCmd(w, c) == SignatureStatus(w, c) \in {"G", "U"}

VerifyCommitSignature(w, c, failed) ==
    /\ c \in DOMAIN w.commits
    /\ ~failed
    /\ VerifyCommitSignatureCmd(w, c)

\* <<>> when the commit cannot be read, else <<info>>.
GetCommitInfo(w, c, an) ==
    IF c \notin DOMAIN w.commits \/ an = "info_fail" THEN <<>>
    ELSE <<[hash |-> c,
            message |-> "m",
            author_name |-> w.commits[c].author.name,
            author_email |-> w.commits[c].author.email,
            timestamp |-> "t",
            signed |-> IsCommitSigned(w, c, an)]>>

\* git show --format=%GK : the id of the signing key, <<>> when there is none.
GetCommitSigningKeyId(w, c, an) ==
    IF c \in DOMAIN w.commits /\ w.commits[c].key # "none" /\ an # "keyid_fail"
    THEN KeyId(w.commits[c].key)
    ELSE <<>>

\* git commit: a new commit on top of HEAD holding the index.
GitCommit(w, key, author) ==
    [w EXCEPT !.commits = Append(w.commits,
                  [parent |-> w.head, key |-> key, author |-> author,
                   tree |-> w.index, other |-> w.others.index]),
              !.head = Len(w.commits) + 1]

\* _commit_with_subprocess: git add, then git commit -S when signing is
\* configured, and git commit without signature when it is not or when the
\* signed attempt did not end with a commit id.  A timeout leaves the
\* function at once.  hash = 0: no commit id is returned; attempts: the
\* git commit commands that were run, in order.
CommitWithSubprocess(w, e, an) ==
    LET staged == [w EXCEPT !.index = w.disk]
        key == GitSigningKey(e)
        gpg_configured == e.cfgKey # <<>>
        NoCommitId(x, attempts) ==
            [w |-> x, hash |-> 0, signed |-> FALSE, attempts |-> attempts]
        Unsigned(x, attempts) ==
            IF IndexDiffers(x, x.head) /\ an # "commit_fail"
            THEN LET done == GitCommit(x, "none", e.user)
                 IN  IF an = "revparse_fail" THEN NoCommitId(done, attempts)
                     ELSE [w |-> done, hash |-> done.head, signed |-> FALSE,
                           attempts |-> attempts]
            ELSE NoCommitId(x, attempts)
    IN  IF ~gpg_configured THEN Unsigned(staged, <<"unsigned">>)
        ELSE IF an = "sign_timeout" THEN NoCommitId(staged, <<"signed">>)
        ELSE IF /\ IndexDiffers(staged, staged.head)
                /\ key # "none"
                /\ an \notin {"sign_fail", "commit_fail"}
        THEN LET done == GitCommit(staged, key, e.user)
             IN  IF an = "revparse_fail"
                 THEN Unsigned(done, <<"signed", "unsigned">>)
                 ELSE [w |-> done, hash |-> done.head,
                       signed |-> IsCommitSigned(done, done.head, an),
                       attempts |-> <<"signed">>]
        ELSE Unsigned(staged, <<"signed", "unsigned">>)

\* commit_and_sign_file: the file must exist.
CommitAndSignFile(w, e, an) ==
    IF w.disk = <<>>
    THEN [w |-> w, hash |-> 0, signed |-> FALSE, attempts |-> <<>>]
    ELSE CommitWithSubprocess(w, e, an)

\* amend_commit_with_file: git add, then git commit --amend, with -S when
\* signing is found configured and without signature when it is not (a
\* probe of the configuration that fails finds none).  The amended commit
\* replaces HEAD.
\* An amend that retries without signature when the signed amend fails.
AmendWithFallback(w, e, an) ==
    LET staged == [w EXCEPT !.index = w.disk]
        gpg_configured == e.cfgKey # <<>> /\ an # "amend_config_fail"
        signs == gpg_configured /\ GitSigningKey(e) # "none"
        key == IF signs THEN GitSigningKey(e) ELSE "none"
        old == staged.commits[staged.head]
        attempt == IF signs THEN <<"signed">>
                   ELSE IF gpg_configured THEN <<"signed", "unsigned">>
                   ELSE <<"unsigned">>
    IN  IF w.disk = <<>> THEN [w |-> w, hash |-> 0, attempts |-> <<>>]
        ELSE IF \/ staged.head = 0
                \/ an = "amend_fail"
                \/ ~IndexDiffers(staged, old.parent)
        THEN [w |-> staged, hash |-> 0, attempts |-> attempt]
        ELSE LET done == [staged EXCEPT
                            !.commits = Append(staged.commits,
                                [parent |-> old.parent, key |-> key,
                                 author |-> old.author, tree |-> staged.index,
                                 other |-> staged.others.index]),
                            !.head = Len(staged.commits) + 1]
             IN  [w |-> done, hash |-> done.head, attempts |-> attempt]

AmendCommitWithFile(w, e, an) ==
    LET staged == [w EXCEPT !.index = w.disk]
        gpg_configured == e.cfgKey # <<>> /\ an # "amend_config_fail"
        key == IF gpg_configured THEN GitSigningKey(e) ELSE "none"
        old == staged.commits[staged.head]
        attempt == IF gpg_configured THEN <<"signed">> ELSE <<"unsigned">>
    IN  IF w.disk = <<>> THEN [w |-> w, hash |-> 0, attempts |-> <<>>]
        ELSE IF \/ staged.head = 0
                \/ an = "amend_fail"
                \/ gpg_configured /\ key = "none"
                \/ ~IndexDiffers(staged, old.parent)
        THEN [w |-> staged, hash |-> 0, attempts |-> attempt]
        ELSE LET done == [staged EXCEPT
                            !.commits = Append(staged.commits,
                                [parent |-> old.parent, key |-> key,
                                 author |-> old.author, tree |-> staged.index,
                                 other |-> staged.others.index]),
                            !.head = Len(staged.commits) + 1]
             IN  IF an = "amend_revparse_fail"
                 THEN [w |-> done, hash |-> 0, attempts |-> attempt]
                 ELSE [w |-> done, hash |-> done.head, attempts |-> attempt]

\* rollback_last_commit: git reset --hard HEAD~1.
RollbackKeepsHead(w, an) ==
    IF w.head = 0 \/ an = "rollback_fail" THEN [w |-> w, ok |-> FALSE]
    ELSE [w |-> [w EXCEPT !.index = TreeOf(w, w.head), !.disk = TreeOf(w, w.head),
                          !.others = [disk |-> OtherOf(w, w.head),
                                      index |-> OtherOf(w, w.head)]],
          ok |-> TRUE]

RollbackLastCommit(w, an) ==
    IF w.head = 0 \/ an = "rollback_fail" THEN [w |-> w, ok |-> FALSE]
    ELSE IF w.commits[w.head].parent = 0 THEN [w |-> w, ok |-> FALSE]
    ELSE LET target == w.commits[w.head].parent
         IN  [w |-> [w EXCEPT !.head = target,
                              !.index = TreeOf(w, target),
                              !.disk = TreeOf(w, target),
                              !.others = [disk |-> OtherOf(w, target),
                                          index |-> OtherOf(w, target)]],
              ok |-> TRUE]

\* save_notebook_content / save_signature_metadata write the file.
SaveNotebookFile(w, content) == [w EXCEPT !.disk = <<content>>]

(***************************************************************************)
(* Responses.  A response carries what the caller receives (code, kind of  *)
(* message, metadata, commit_hash, signed, ...) and, for the statements    *)
(* below, what the handler did: the request it served (op, path, an), the  *)
(* state-changing service calls it made (calls), whether the amend went    *)
(* through (amended) and the repository it started from (pre).  For an     *)
(* Unlock it also carries the checks that were run, in order (checks), and *)
(* the ends of key ids its message names (key_ids); for a commit step     *)
(* run on its own, the git commit commands it ran (attempts).              *)
(***************************************************************************)
Idle ==
    [op |-> "idle", path |-> "", an |-> "none", code |-> 0, kind |-> "",
     metadata |-> <<>>, commit_hash |-> 0, signed |-> FALSE,
     signature_verification_passed |-> FALSE, locked |-> FALSE,
     signature_valid |-> FALSE, warnings |-> {}, key_ids |-> {},
     checks |-> <<>>, attempts |-> <<>>, tested |-> <<>>, calls |-> {},
     amended |-> FALSE, pre |-> <<>>]

Reply(op, path, an, code, kind, calls) ==
    [Idle EXCEPT !.op = op, !.path = path, !.an = an, !.code = code,
                 !.kind = kind, !.calls = calls]

Result(w, r) == [w |-> w, r |-> r]

(***************************************************************************)
(* LockNotebookHandler.post                                                *)
(***************************************************************************)
\* The checks made before anything is written; "" when all of them pass.
LockPreconditionFailureNoProbe(e, path, an) ==
    IF an = "missing_fields" THEN "missing_fields"
    ELSE IF ~IsGitRepository(path) THEN "not_a_repository"
    ELSE IF GetUserInfo(e) = NoUser THEN "no_user"
    ELSE IF ~IsGpgAvailable(an) THEN "gpg_unavailable"
    ELSE IF ~HasSigningKey(e) THEN "no_signing_key"
    ELSE IF GetConfiguredSigningKey(e) = <<>> THEN "no_configured_key"
    ELSE ""

LockPreconditionFailure(e, path, an) ==
    IF an = "missing_fields" THEN "missing_fields"
    ELSE IF ~IsGitRepository(path) THEN "not_a_repository"
    ELSE IF GetUserInfo(e) = NoUser THEN "no_user"
    ELSE IF ~IsGpgAvailable(an) THEN "gpg_unavailable"
    ELSE IF ~HasSigningKey(e) THEN "no_signing_key"
    ELSE IF GetConfiguredSigningKey(e) = <<>> THEN "no_configured_key"
    ELSE IF ~CanSignWithKey(e, GetConfiguredSigningKey(e), an) THEN "cannot_sign"
    ELSE ""

LockSignatureMetadataUnhashed(info, user_info, content_hash) ==
    [locked |-> TRUE,
     commit_hash |-> info.hash,
     commit_signed |-> info.signed,
     user_name |-> info.author_name,
     user_email |-> info.author_email,
     timestamp |-> info.timestamp,
     content_hash |-> NoHash,
     commit_message |-> info.message,
     gpg_available |-> info.signed]

LockSignatureMetadata(info, user_info, content_hash) ==
    [locked |-> TRUE,
     commit_hash |-> info.hash,
     commit_signed |-> info.signed,
     user_name |-> info.author_name,
     user_email |-> info.author_email,
     timestamp |-> info.timestamp,
     content_hash |-> content_hash,
     commit_message |-> info.message,
     gpg_available |-> info.signed]

\* The unsigned commit is rolled back; the outcome tells which way it went.
LockRollbackOptimistic(w, path, an, calls) ==
    Result(RollbackLastCommit(w, an).w,
           Reply("lock", path, an, 400, "rolled_back", calls \cup {"rollback"}))

LockRollback(w, path, an, calls) ==
    LET rb == RollbackLastCommit(w, an)
    IN  IF rb.ok
        THEN Result(rb.w, Reply("lock", path, an, 400, "rolled_back",
                                calls \cup {"rollback"}))
        ELSE Result(rb.w, Reply("lock", path, an, 500, "rollback_failed",
                                calls \cup {"rollback"}))

\* The metadata is built, saved with the document, and the commit amended;
\* a failed amend leaves the first commit id in place.
LockPersist(w, e, path, content, an, info, content_hash) ==
    LET signature_metadata ==
            LockSignatureMetadata(info, GetUserInfo(e), content_hash)
        calls == {"save", "commit"}
    IN  IF an = "save_meta_fail"
        THEN Result(w, Reply("lock", path, an, 500, "save_metadata_failed", calls))
        ELSE
        LET saved == SaveNotebookFile(w,
                        WithSignatureMetadata(content, signature_metadata))
            am == AmendCommitWithFile(saved, e, an)
            commit_hash == IF am.hash = 0 THEN info.hash ELSE am.hash
        IN  Result(am.w,
                [Reply("lock", path, an, 200, "locked",
                       calls \cup {"save_metadata", "amend"})
                 EXCEPT !.metadata =
                            <<[signature_metadata EXCEPT !.commit_hash = commit_hash]>>,
                        !.commit_hash = commit_hash,
                        !.signed = info.signed,
                        !.amended = am.hash # 0])

LockPost(w, e, path, content, an) ==
    LET pre == LockPreconditionFailure(e, path, an)
    IN  IF pre # "" THEN Result(w, Reply("lock", path, an, 400, pre, {}))
        ELSE
        LET content_hash == GenerateContentHash(content)
        IN  IF an = "save_fail"
            THEN Result(w, Reply("lock", path, an, 500, "save_failed", {}))
            ELSE
            LET c == CommitAndSignFile(SaveNotebookFile(w, content), e, an)
            IN  IF c.hash = 0
                THEN Result(c.w, Reply("lock", path, an, 500, "commit_failed",
                                       {"save", "commit"}))
                ELSE
                LET info == GetCommitInfo(c.w, c.hash, an)
                IN  IF info = <<>>
                    THEN Result(c.w, Reply("lock", path, an, 500,
                                    "commit_info_failed", {"save", "commit"}))
                    ELSE IF ~info[1].signed
                    THEN LockRollback(c.w, path, an, {"save", "commit"})
                    ELSE LockPersist(c.w, e, path, content, an, info[1],
                                     content_hash)

(***************************************************************************)
(* UnlockNotebookHandler.post                                              *)
(***************************************************************************)
\* The stored hash is compared with the hash of the document as submitted
\* and, when that differs, once more with the signature metadata removed.
ContentHashUnchecked(notebook_content, signature_metadata) == TRUE

ContentHashMatches(notebook_content, signature_metadata) ==
    LET stored_hash == Get(signature_metadata, "content_hash", NoHash)
    IN  \/ GenerateContentHash(notebook_content) = stored_hash
        \/ GenerateContentHash(WithoutSignatureMetadata(notebook_content))
               = stored_hash

\* Both the name and the email are those recorded in the metadata.
IdentityMatchesNameOnly(unlocking_user, signature_metadata) ==
    unlocking_user.name = Get(signature_metadata, "user_name", "")

IdentityMatches(unlocking_user, signature_metadata) ==
    /\ unlocking_user.name = Get(signature_metadata, "user_name", "")
    /\ unlocking_user.email = Get(signature_metadata, "user_email", "")

\* Equal, or one a suffix of the other, compared as written.
KeysMatch(current_configured_key, original_signing_key_id) ==
    \/ current_configured_key = original_signing_key_id
    \/ IsSuffix(original_signing_key_id, current_configured_key)
    \/ IsSuffix(current_configured_key, original_signing_key_id)

\* The key validation made for a lock that was signed; "" when it passes.
KeyPossessionInventoryOnly(w, e, commit_hash, an) ==
    LET original_signing_key_id == GetCommitSigningKeyId(w, commit_hash, an)
        current_configured_key == GetConfiguredSigningKey(e)
    IN  IF ~IsGpgAvailable(an) THEN "gpg_unavailable"
        ELSE IF ~HasSigningKey(e) THEN "no_signing_key"
        ELSE IF original_signing_key_id = <<>> THEN "key_id_unavailable"
        ELSE IF current_configured_key = <<>> THEN "no_configured_key"
        ELSE IF ~KeysMatch(current_configured_key, original_signing_key_id)
        THEN "key_mismatch"
        ELSE ""

KeyPossessionFailure(w, e, commit_hash, an) ==
    LET original_signing_key_id == GetCommitSigningKeyId(w, commit_hash, an)
        current_configured_key == GetConfiguredSigningKey(e)
    IN  IF ~IsGpgAvailable(an) THEN "gpg_unavailable"
        ELSE IF ~HasSigningKey(e) THEN "no_signing_key"
        ELSE IF original_signing_key_id = <<>> THEN "key_id_unavailable"
        ELSE IF current_configured_key = <<>> THEN "no_configured_key"
        ELSE IF ~KeysMatch(current_configured_key, original_signing_key_id)
        THEN "key_mismatch"
        ELSE IF ~CanSignWithKey(e, original_signing_key_id, an) THEN "cannot_sign"
        ELSE IF ~VerifyCommitSignature(w, commit_hash,
                                       an \in {"verify_final_fail", "verify_down"})
        THEN "verification_failed"
        ELSE ""

\* The auto-commit failed: the Unlock succeeds with a warning, no commit id
\* and the metadata as saved.
UnlockAutoCommitFailedAsError(w, path, an, updated_metadata, passed) ==
    Result(w, Reply("unlock", path, an, 500, "commit_failed",
                    {"save_metadata", "commit"}))

UnlockAutoCommitFailed(w, path, an, updated_metadata, passed) ==
    Result(w,
        [Reply("unlock", path, an, 200, "unlocked", {"save_metadata", "commit"})
         EXCEPT !.metadata = <<updated_metadata>>,
                !.signature_verification_passed = passed,
                !.warnings = (IF passed THEN {} ELSE {"verification"})
                                 \cup {"autocommit"}])

\* The metadata is marked unlocked and saved, the file committed, and on
\* success the commit id is saved with it and the commit amended.
UnlockPersist(w, e, path, content, an, signature_metadata, passed) ==
    LET unlocking_user == GetUserInfo(e)
        updated_metadata ==
            Update(signature_metadata,
                   [locked |-> FALSE,
                    unlock_timestamp |-> "t",
                    unlocked_by_user_name |-> unlocking_user.name,
                    unlocked_by_user_email |-> unlocking_user.email])
        verification == IF passed THEN {} ELSE {"verification"}
    IN  IF an = "save_meta_fail"
        THEN Result(w, Reply("unlock", path, an, 500, "save_metadata_failed", {}))
        ELSE
        LET saved == SaveNotebookFile(w,
                        WithSignatureMetadata(content, updated_metadata))
            c == CommitAndSignFile(saved, e, an)
        IN  IF c.hash = 0
            THEN UnlockAutoCommitFailed(c.w, path, an, updated_metadata, passed)
            ELSE
            LET final_metadata ==
                    Update(updated_metadata, [unlock_commit_hash |-> c.hash])
                resaved == SaveNotebookFile(c.w,
                              WithSignatureMetadata(content, final_metadata))
                am == AmendCommitWithFile(resaved, e, an)
            IN  Result(am.w,
                    [Reply("unlock", path, an, 200, "unlocked",
                           {"save_metadata", "commit", "amend"})
                     EXCEPT !.metadata = <<final_metadata>>,
                            !.commit_hash = c.hash,
                            !.signature_verification_passed = passed,
                            !.warnings = verification,
                            !.amended = am.hash # 0])

\* The last chars characters of a key id, as a message shows them.
ShortKeyId(key_id, chars) == [chars |-> chars, block |-> key_id[Len(key_id)]]

\* The ends of key ids named in the message of a refusal of the key
\* validation: none unless the name and the email are those recorded.
KeyIdsInMessage(kind, unlocking_user, signature_metadata, original, current) ==
    LET user_matches ==
            /\ unlocking_user.name = Get(signature_metadata, "user_name", "")
            /\ unlocking_user.email = Get(signature_metadata, "user_email", "")
    IN  IF ~user_matches THEN {}
        ELSE IF kind = "no_configured_key" THEN {ShortKeyId(original, 4)}
        ELSE IF kind = "key_mismatch"
        THEN {ShortKeyId(original, 8), ShortKeyId(current, 8)}
        ELSE IF kind = "cannot_sign" THEN {ShortKeyId(original, 4)}
        ELSE {}

\* An abort: the error is written and the handler returns.
UnlockRefuseNamingKey(w, path, an, code, kind) ==
    Result(w, [Reply("unlock", path, an, code, kind, {})
               EXCEPT !.key_ids = {ShortKeyId(KeyId("K1"), 8)}])

UnlockRefuseAfterReset(w, path, an, code, kind) ==
    Result(RollbackLastCommit(w, an).w, Reply("unlock", path, an, code, kind, {}))

UnlockRefuseAsClientError(w, path, an, code, kind) ==
    Result(w, Reply("unlock", path, an, 400, kind, {}))

UnlockRefuse(w, path, an, code, kind) ==
    Result(w, Reply("unlock", path, an, code, kind, {}))

\* The checks run in the order content, signature, identity, key; checks
\* lists those that were started when the handler returned.
UnlockPost(w, e, path, content, an) ==
    LET sigs == GetSignatureMetadata(content)
        ran(res, checks) == Result(res.w, [res.r EXCEPT !.checks = checks])
        refuse(code, kind, checks) ==
            ran(UnlockRefuse(w, path, an, code, kind), checks)
    IN  IF an = "missing_fields" THEN refuse(400, "missing_fields", <<>>)
        ELSE IF ~IsGitRepository(path) THEN refuse(400, "not_a_repository", <<>>)
        ELSE IF sigs = <<>> THEN refuse(400, "no_signature", <<>>)
        ELSE
        LET signature_metadata == sigs[1]
            commit_hash == Get(signature_metadata, "commit_hash", 0)
            was_gpg_signed == Get(signature_metadata, "commit_signed", FALSE)
            unlocking_user == GetUserInfo(e)
        IN  IF commit_hash = 0 THEN refuse(400, "no_commit_hash", <<>>)
            ELSE IF ~ContentHashMatches(content, signature_metadata)
            THEN refuse(400, "content_modified", <<"content">>)
            ELSE IF ~was_gpg_signed /\ GetCommitInfo(w, commit_hash, an) = <<>>
            THEN refuse(400, "commit_not_found", <<"content", "signature">>)
            ELSE IF unlocking_user = NoUser
            THEN refuse(400, "no_user", <<"content", "signature", "identity">>)
            ELSE IF ~IdentityMatches(unlocking_user, signature_metadata)
            THEN refuse(403, "identity_mismatch",
                        <<"content", "signature", "identity">>)
            ELSE
            LET denied == IF was_gpg_signed
                          THEN KeyPossessionFailure(w, e, commit_hash, an)
                          ELSE ""
                passed == \/ ~was_gpg_signed
                          \/ VerifyCommitSignature(w, commit_hash,
                                 an \in {"verify_fail", "verify_down"})
                checks == IF was_gpg_signed
                          THEN <<"content", "signature", "identity", "key">>
                          ELSE <<"content", "signature", "identity">>
                refused == refuse(403, denied, checks)
            IN  IF denied # ""
                THEN Result(refused.w,
                        [refused.r EXCEPT !.key_ids =
                            @ \cup KeyIdsInMessage(denied, unlocking_user,
                                      signature_metadata,
                                      GetCommitSigningKeyId(w, commit_hash, an),
                                      GetConfiguredSigningKey(e))])
                ELSE ran(UnlockPersist(w, e, path, content, an,
                                       signature_metadata, passed), checks)

(***************************************************************************)
(* NotebookStatusHandler.post                                              *)
(***************************************************************************)
StatusPostSaving(w, path, content, an) ==
    LET sigs == GetSignatureMetadata(content)
    IN  IF an = "missing_fields"
        THEN Result(w, Reply("status", path, an, 400, "missing_fields", {}))
        ELSE IF sigs = <<>>
        THEN Result(w, Reply("status", path, an, 200, "no_signature", {}))
        ELSE IF ~Get(sigs[1], "locked", FALSE)
        THEN Result(w, Reply("status", path, an, 200, "not_locked", {}))
        ELSE
        LET commit_hash == Get(sigs[1], "commit_hash", 0)
            verified == /\ path # ""
                        /\ IsGitRepository(path)
                        /\ commit_hash # 0
                        /\ VerifyCommitSignature(w, commit_hash, an = "verify_fail")
            intact == GenerateContentHash(content)
                          = Get(sigs[1], "content_hash", NoHash)
        IN  Result(SaveNotebookFile(w, content),
                   [Reply("status", path, an, 200, "locked", {})
                       EXCEPT !.locked = TRUE,
                              !.signature_valid = verified /\ intact,
                              !.metadata = sigs])

StatusPost(w, path, content, an) ==
    LET sigs == GetSignatureMetadata(content)
    IN  IF an = "missing_fields"
        THEN Result(w, Reply("status", path, an, 400, "missing_fields", {}))
        ELSE IF sigs = <<>>
        THEN Result(w, Reply("status", path, an, 200, "no_signature", {}))
        ELSE IF ~Get(sigs[1], "locked", FALSE)
        THEN Result(w, Reply("status", path, an, 200, "not_locked", {}))
        ELSE
        LET commit_hash == Get(sigs[1], "commit_hash", 0)
            verified == /\ path # ""
                        /\ IsGitRepository(path)
                        /\ commit_hash # 0
                        /\ VerifyCommitSignature(w, commit_hash, an = "verify_fail")
            intact == GenerateContentHash(content)
                          = Get(sigs[1], "content_hash", NoHash)
        IN  Result(w, [Reply("status", path, an, 200, "locked", {})
                       EXCEPT !.locked = TRUE,
                              !.signature_valid = verified /\ intact,
                              !.metadata = sigs])

(***************************************************************************)
(* CommitNotebookHandler.post                                              *)
(***************************************************************************)
\* The metadata of the commit is merged over what the document carries,
\* saved with the submitted document, and the commit amended.
CommitPersist(w, e, path, content, an, info) ==
    LET fresh == [commit_hash |-> info.hash,
                  commit_signed |-> info.signed,
                  user_name |-> info.author_name,
                  user_email |-> info.author_email,
                  timestamp |-> info.timestamp,
                  content_hash |-> GenerateContentHash(content),
                  commit_message |-> info.message]
        sigs == GetSignatureMetadata(content)
        updated_metadata == IF sigs # <<>> THEN Update(sigs[1], fresh) ELSE fresh
    IN  IF an = "save_meta_fail"
        THEN Result(w, [Reply("commit", path, an, 200, "committed", {"commit"})
                        EXCEPT !.commit_hash = info.hash, !.signed = info.signed])
        ELSE
        LET saved == SaveNotebookFile(w,
                        WithSignatureMetadata(content, updated_metadata))
            am == AmendCommitWithFile(saved, e, an)
            updated_commit_info ==
                IF am.hash = 0 THEN <<>> ELSE GetCommitInfo(am.w, am.hash, an)
        IN  Result(am.w,
                [Reply("commit", path, an, 200, "committed",
                       {"commit", "save_metadata", "amend"})
                 EXCEPT !.commit_hash = IF am.hash = 0 THEN info.hash ELSE am.hash,
                        !.signed = IF updated_commit_info = <<>> THEN info.signed
                                   ELSE updated_commit_info[1].signed,
                        !.amended = am.hash # 0])

CommitPost(w, e, path, content, an) ==
    LET refuse(code, kind) == Result(w, Reply("commit", path, an, code, kind, {}))
    IN  IF an = "missing_fields" THEN refuse(400, "missing_fields")
        ELSE IF path = NotebookPath /\ w.disk = <<>> THEN refuse(400, "file_missing")
        ELSE IF ~IsGitRepository(path) THEN refuse(400, "not_a_repository")
        ELSE IF GetUserInfo(e) = NoUser THEN refuse(400, "no_user")
        ELSE
        LET c == CommitAndSignFile(w, e, an)
        IN  IF c.hash = 0
            THEN Result(c.w, Reply("commit", path, an, 500, "commit_failed",
                                   {"commit"}))
            ELSE
            LET info == GetCommitInfo(c.w, c.hash, an)
            IN  IF info = <<>>
                THEN Result(c.w, Reply("commit", path, an, 500,
                                       "commit_info_failed", {"commit"}))
                ELSE CommitPersist(c.w, e, path, content, an, info[1])

(***************************************************************************)
(* The system.  Requests are served one at a time; the response is         *)
(* delivered to the caller, who takes over the returned metadata.  Between *)
(* requests the caller edits its document and the operator changes the     *)
(* configuration.                                                          *)
(***************************************************************************)
\* An operator with an identity, a private key and that key configured.
Configured == [user |-> Alice, keyring |-> {"K1"}, cfgKey |-> KeyId("K1")]

BaseCommit ==
    [parent |-> 0, key |-> "none", author |-> Alice, tree |-> <<>>, other |-> 0]

Init ==
    /\ disk = <<>>
    /\ index = <<>>
    /\ \/ commits = <<>> /\ head = 0
       \/ commits = <<BaseCommit>> /\ head = 1
    /\ env = Configured
    /\ client \in InitialDocs
    /\ lockRec = <<>>
    /\ used = [requests |-> 0, reconfigs |-> 0]
    /\ resp = Idle
    /\ procs = <<>>
    /\ others = Unmodified

Serve(res) ==
    /\ resp = Idle
    /\ used.requests < MaxRequests
    /\ disk' = res.w.disk
    /\ commits' = res.w.commits
    /\ head' = res.w.head
    /\ index' = res.w.index
    /\ others' = res.w.others
    /\ resp' = [res.r EXCEPT !.pre = <<World>>]
    /\ used' = [used EXCEPT !.requests = @ + 1]
    /\ UNCHANGED <<env, client, lockRec, procs>>

\* What can go wrong in one request beside what the state decides: a field
\* missing from the request, a path outside the repository, or one external
\* command that fails or times out, once or each time it is run.
LockAnomalies ==
    {"none", "missing_fields", "outside_repo", "gpg_down", "sign_probe_fail",
     "save_fail", "sign_fail", "sign_timeout", "commit_fail", "revparse_fail",
     "info_fail", "show_fail", "rollback_fail", "save_meta_fail",
     "amend_config_fail", "amend_fail"}

UnlockAnomalies ==
    {"none", "missing_fields", "outside_repo", "gpg_down", "sign_probe_fail",
     "keyid_fail", "verify_fail", "verify_final_fail", "verify_down",
     "info_fail", "save_meta_fail", "sign_fail", "sign_timeout", "commit_fail",
     "revparse_fail", "amend_fail"}

StatusAnomalies == {"none", "missing_fields", "outside_repo", "no_path", "verify_fail"}

CommitAnomalies ==
    {"none", "missing_fields", "outside_repo", "sign_fail", "sign_timeout",
     "commit_fail", "revparse_fail", "info_fail", "show_fail", "save_meta_fail",
     "amend_fail"}

Lock ==
    \E an \in LockAnomalies : Serve(LockPost(World, env, PathOf(an), client, an))

Unlock ==
    \E an \in UnlockAnomalies : Serve(UnlockPost(World, env, PathOf(an), client, an))

Status ==
    \E an \in StatusAnomalies : Serve(StatusPost(World, PathOf(an), client, an))

Commit ==
    \E an \in CommitAnomalies : Serve(CommitPost(World, env, PathOf(an), client, an))

\* The caller receives the response; after a successful Lock or Unlock it
\* holds the document it submitted with the metadata returned.
Deliver ==
    /\ resp # Idle
    /\ client' = IF resp.code = 200 /\ resp.op \in {"lock", "unlock"}
                 THEN WithSignatureMetadata(client, resp.metadata[1])
                 ELSE client
    /\ lockRec' = IF resp.code = 200 /\ resp.op = "lock"
                  THEN <<[doc |-> client', env |-> env]>>
                  ELSE lockRec
    /\ resp' = Idle
    /\ UNCHANGED <<disk, commits, head, index, env, used, procs, others>>

\* The caller edits the source of a cell, or other document metadata.
EditSource ==
    /\ resp = Idle
    /\ client.hasCells
    /\ \E i \in 1..Len(client.cells), src \in Sources :
          /\ src # client.cells[i].source
          /\ client' = [client EXCEPT !.cells[i].source = src]
    /\ UNCHANGED <<disk, commits, head, index, env, resp, lockRec, used, procs, others>>

EditKernel ==
    /\ resp = Idle
    /\ client.hasMeta
    /\ client' = [client EXCEPT !.kernel = 1 - client.kernel]
    /\ UNCHANGED <<disk, commits, head, index, env, resp, lockRec, used, procs, others>>

\* The operator changes the configuration between two requests.
Reconfigure ==
    /\ resp = Idle
    /\ used.reconfigs < MaxReconfigs
    /\ \E e \in Envs \ {env} : env' = e
    /\ used' = [used EXCEPT !.reconfigs = @ + 1]
    /\ UNCHANGED <<disk, commits, head, index, client, resp, lockRec, procs, others>>

Next ==
    \/ Lock
    \/ Unlock
    \/ Status
    \/ Commit
    \/ Deliver
    \/ EditSource
    \/ EditKernel
    \/ Reconfigure

Spec == Init /\ [][Next]_vars

(***************************************************************************)
(* Statements about the handlers.  While a response is in flight, client   *)
(* is the document that was submitted, env the configuration the request   *)
(* ran under, resp.pre[1] the repository it started from and World the     *)
(* repository it left.                                                     *)
(***************************************************************************)
Pre == resp.pre[1]

SubmittedSig == client.sig[1]

SourcesOf(doc) == [i \in 1..Len(doc.cells) |-> doc.cells[i].source]

\* The caller submits, unchanged, the document it held after the last Lock.
FromLastLock == lockRec # <<>> /\ client = lockRec[1].doc

\* The configuration is the one the last Lock ran under.
SameOperator == lockRec # <<>> /\ env = lockRec[1].env

\* The request is well formed and names the notebook in its repository.
WellFormed == resp.an \notin {"missing_fields", "outside_repo", "no_path"}

\* C1: an Unlock of the document obtained from a successful Lock, submitted
\* unchanged by the same operator with the same key configured and with no
\* external call failing, succeeds and returns metadata with locked = false.
C1_RoundTrip ==
    (resp.op = "unlock" /\ resp.an = "none" /\ FromLastLock /\ SameOperator)
        => (resp.code = 200 /\ ~resp.metadata[1].locked)

\* The seven key-possession checks, read off the configuration, the keyring
\* and the lock commit c.
KeyPossessionChecksPass(c) ==
    /\ resp.an # "gpg_down"
    /\ env.keyring # {}
    /\ c \in DOMAIN commits /\ commits[c].key # "none" /\ resp.an # "keyid_fail"
    /\ env.cfgKey # <<>>
    /\ \/ IsSuffix(env.cfgKey, KeyId(commits[c].key))
       \/ IsSuffix(KeyId(commits[c].key), env.cfgKey)
    /\ commits[c].key \in env.keyring /\ resp.an # "sign_probe_fail"
    /\ resp.an \notin {"verify_final_fail", "verify_down"}

SignedLockSubmitted ==
    /\ resp.op = "unlock"
    /\ client.hasMeta /\ client.sig # <<>>
    /\ Get(SubmittedSig, "commit_signed", FALSE)

\* C2: for a lock recorded as signed, Unlock succeeds only if all seven
\* key-possession checks pass in that request; when one of them fails the
\* request is refused and leaves the repository and the file as they were.
C2_KeyPossessionRequired ==
    SignedLockSubmitted =>
        /\ resp.code = 200 =>
              KeyPossessionChecksPass(Get(SubmittedSig, "commit_hash", 0))
        /\ ~KeyPossessionChecksPass(Get(SubmittedSig, "commit_hash", 0)) =>
              (resp.code \in {400, 403} /\ World = Pre)

C2_Witness ==
    /\ SignedLockSubmitted
    /\ resp.code = 403
    /\ resp.kind = "verification_failed"

\* The submitted document carries the metadata of the last Lock, and the
\* source of one of its cells is not what it was at that Lock.
SourceChangedSinceLock ==
    /\ resp.op = "unlock"
    /\ lockRec # <<>>
    /\ client.hasMeta /\ client.sig = lockRec[1].doc.sig
    /\ SourcesOf(client) # SourcesOf(lockRec[1].doc)

\* C3: when a cell source differs from what it was at Lock, a well-formed
\* Unlock is refused with 400 content-modified and changes nothing: it
\* reaches neither the metadata update nor the auto-commit, whether or not
\* other document metadata changed too.
C3_SourceChangeRefused ==
    (SourceChangedSinceLock /\ WellFormed) =>
        /\ resp.code = 400
        /\ resp.kind = "content_modified"
        /\ resp.calls = {}
        /\ World = Pre

C3_Witness ==
    /\ SourceChangedSinceLock
    /\ client.kernel # lockRec[1].doc.kernel
    /\ resp.kind = "content_modified"

\* The operator's resolved name or email is not the one the submitted
\* metadata records.
IdentityDiffers ==
    /\ resp.op = "unlock"
    /\ client.hasMeta /\ client.sig # <<>>
    /\ env.user # NoUser
    /\ \/ env.user.name # Get(SubmittedSig, "user_name", "")
       \/ env.user.email # Get(SubmittedSig, "user_email", "")

DiskLocked(w) ==
    /\ w.disk # <<>>
    /\ w.disk[1].hasMeta /\ w.disk[1].sig # <<>>
    /\ Get(w.disk[1].sig[1], "locked", FALSE)

\* C5: a request that finds the file of a notebook with cells locked and
\* leaves it locked leaves its stored content_hash as it was.
C5_LockedHashFrozen ==
    (resp # Idle /\ DiskLocked(Pre) /\ DiskLocked(World) /\ client.hasCells) =>
        World.disk[1].sig[1].content_hash = Pre.disk[1].sig[1].content_hash

\* One of the preconditions of Lock does not hold: the path is in no
\* repository, no identity, backend down, no private key, no configured
\* key, or the configured key cannot sign.
LockPreconditionFails ==
    \/ resp.path # NotebookPath
    \/ env.user = NoUser
    \/ resp.an = "gpg_down"
    \/ env.keyring = {}
    \/ env.cfgKey = <<>>
    \/ Upper(env.cfgKey) \notin {KeyId(k) : k \in env.keyring}
    \/ resp.an = "sign_probe_fail"

\* C6: a Lock whose precondition fails returns an error and leaves HEAD,
\* the commits, the index and the file on disk unchanged.
C6_FailedPreconditionNoEffect ==
    (resp.op = "lock" /\ LockPreconditionFails) =>
        /\ resp.code = 400
        /\ World = Pre

C6_Witness ==
    /\ resp.op = "lock"
    /\ resp.an = "none"
    /\ env.user # NoUser
    /\ env.keyring # {}
    /\ env.cfgKey = KeyId("K2")
    /\ resp.kind = "cannot_sign"

\* The Lock created a commit and found it not signed.
LockCommitFoundUnsigned ==
    /\ resp.op = "lock"
    /\ Len(commits) > Len(Pre.commits)
    /\ \/ commits[Len(Pre.commits) + 1].key = "none"
       \/ resp.an = "show_fail"

\* git reset --hard HEAD~1 can succeed: the lock commit has a parent and the
\* command does not fail.
RollbackCanSucceed == Pre.head # 0 /\ resp.an # "rollback_fail"

\* C7 as stated: whenever the lock commit is found unsigned, rollback is
\* invoked, HEAD is the pre-lock HEAD again and the caller gets the
\* rolled-back error.
C7_AlwaysRolledBack ==
    LockCommitFoundUnsigned =>
        /\ "rollback" \in resp.calls
        /\ head = Pre.head
        /\ resp.kind = "rolled_back"

\* C7: whenever the lock commit is found unsigned, rollback is invoked; when
\* the reset can succeed HEAD is the pre-lock HEAD again and the caller gets
\* the 400 rolled-back error; when it cannot (the lock commit is the first
\* commit of the repository, or the reset fails) HEAD stays on the unsigned
\* commit and the caller gets the 500 rollback-failed error.
C7_RolledBackWhenPossible ==
    LockCommitFoundUnsigned =>
        /\ "rollback" \in resp.calls
        /\ RollbackCanSucceed =>
              (head = Pre.head /\ resp.code = 400 /\ resp.kind = "rolled_back")
        /\ ~RollbackCanSucceed =>
              (head # Pre.head /\ resp.code = 500 /\ resp.kind = "rollback_failed")

C7_Witness ==
    /\ LockCommitFoundUnsigned
    /\ Pre.head # 0
    /\ head = Pre.head
    /\ resp.kind = "rolled_back"

\* C8: when the lock commit is unsigned and the rollback fails, Lock answers
\* 500 with the manual-intervention error, not success and not the
\* rolled-back error, and the file holds the document as submitted, with no
\* lock metadata written to it.
C8_RollbackFailureIsCritical ==
    (LockCommitFoundUnsigned /\ ~RollbackCanSucceed) =>
        /\ resp.code = 500
        /\ resp.kind = "rollback_failed"
        /\ resp.metadata = <<>>
        /\ "save_metadata" \notin resp.calls
        /\ disk = <<client>>

C8_Witness ==
    /\ LockCommitFoundUnsigned
    /\ Pre.head = 0
    /\ resp.an = "sign_fail"
    /\ resp.kind = "rollback_failed"

\* C9: a Status on the document obtained from a successful Lock, submitted
\* unchanged with the same path and with no external call failing, returns
\* locked = true and signature_valid = true.
C9_StatusAfterLock ==
    (resp.op = "status" /\ resp.an = "none" /\ FromLastLock)
        => (resp.locked /\ resp.signature_valid)

\* The hash of a document, from its definition: the sources and normalised
\* outputs of its cells in order, or the whole object when it has no cells.
IndependentHash(doc) ==
    IF doc.hasCells
    THEN [cells |-> [i \in 1..Len(doc.cells) |->
                        [source |-> doc.cells[i].source,
                         outputs |-> [j \in 1..Len(doc.cells[i].outputs) |->
                                         CleanOutput(doc.cells[i].outputs[j])]]],
          whole |-> <<>>]
    ELSE [cells |-> <<>>, whole |-> <<doc>>]

\* The preconditions of Lock hold and the request made a signed commit on
\* top of the pre-lock HEAD; no later external call fails fatally.
LockSigned ==
    /\ resp.op = "lock"
    /\ ~LockPreconditionFails
    /\ resp.an \in {"none", "amend_fail"}
    /\ Len(commits) > Len(Pre.commits)
    /\ commits[Len(Pre.commits) + 1].key # "none"

\* C10: when the preconditions pass and the commit is signed, Lock succeeds:
\* HEAD is a new signed commit, the response has signed = true, and the
\* metadata has locked = true, commit_signed = true and the hash of the
\* submitted document as content_hash.
C10_SignedLockSucceeds ==
    LockSigned =>
        /\ resp.code = 200
        /\ resp.signed
        /\ head # Pre.head /\ head = resp.commit_hash
        /\ commits[head].key # "none"
        /\ resp.metadata[1].locked
        /\ resp.metadata[1].commit_signed
        /\ resp.metadata[1].commit_hash = resp.commit_hash
        /\ resp.metadata[1].content_hash = IndependentHash(client)

C10_Witness ==
    /\ LockSigned
    /\ resp.code = 200
    /\ client.hasCells
    /\ Pre.head # 0
(***************************************************************************)
(* The content hash as a function of the document.  The file on disk holds *)
(* a document D with its content hash stored in it; the caller holds a     *)
(* variant of D, reached by changing one field at a time, and resp holds   *)
(* the hash taken of that variant.                                         *)
(***************************************************************************)
OutputTexts == {"x", "y"}

\* An execute_result output: its data, its execution count and its metadata.
MkOutput(text, count, meta) ==
    [output_type |-> "execute_result", text |-> text,
     execution_count |-> count, metadata |-> meta]

OutputSeqs == UNION {[1..n -> {MkOutput(t, 1, "m1") : t \in OutputTexts}] :
                        n \in 0..MaxOutputs}

HashDocs ==
    {[MkDoc(<<src>>, 0) EXCEPT !.cells[1].outputs = outs] :
        src \in Sources, outs \in OutputSeqs}

Hashed(notebook_content) ==
    [Idle EXCEPT !.op = "hash",
                 !.metadata = <<[content_hash |->
                                    GenerateContentHash(notebook_content)]>>]

HashInit ==
    /\ \E d \in HashDocs :
          /\ disk = <<WithSignatureMetadata(d,
                        [content_hash |-> GenerateContentHash(d)])>>
          /\ client = d
          /\ resp = Hashed(d)
    /\ commits = <<>> /\ head = 0 /\ index = <<>>
    /\ env = Configured
    /\ lockRec = <<>>
    /\ used = [requests |-> 0, reconfigs |-> 0]
    /\ procs = <<>>
    /\ others = Unmodified

\* The caller's document becomes d and its hash is taken.
HashVariant(d) ==
    /\ d # client
    /\ client' = d
    /\ resp' = Hashed(d)
    /\ UNCHANGED <<disk, commits, head, index, env, lockRec, used, procs, others>>

SetSource ==
    \E src \in Sources : HashVariant([client EXCEPT !.cells[1].source = src])

SetOutputText ==
    \E j \in 1..Len(client.cells[1].outputs), t \in OutputTexts :
        HashVariant([client EXCEPT !.cells[1].outputs[j].text = t])

SetOutputExecutionCount ==
    \E j \in 1..Len(client.cells[1].outputs), n \in 1..2 :
        HashVariant([client EXCEPT !.cells[1].outputs[j].execution_count = n])

SetOutputMetadata ==
    \E j \in 1..Len(client.cells[1].outputs), m \in {"m1", "m2"} :
        HashVariant([client EXCEPT !.cells[1].outputs[j].metadata = m])

SetOutputTransient ==
    \E j \in 1..Len(client.cells[1].outputs) :
        HashVariant([client EXCEPT !.cells[1].outputs[j] =
                        Update(@, [transient |-> "t1"])])

DropOutputTransient ==
    \E j \in 1..Len(client.cells[1].outputs) :
        LET output == client.cells[1].outputs[j]
        IN  HashVariant([client EXCEPT !.cells[1].outputs[j] =
                            [k \in DOMAIN output \ {"transient"} |-> output[k]]])

SetCellExecutionCount ==
    \E n \in 0..1 : HashVariant([client EXCEPT !.cells[1].execution_count = n])

SetKernel ==
    \E k \in 0..1 : HashVariant([client EXCEPT !.kernel = k])

HashNext ==
    \/ SetSource
    \/ SetOutputText
    \/ SetOutputExecutionCount
    \/ SetOutputMetadata
    \/ SetOutputTransient
    \/ DropOutputTransient
    \/ SetCellExecutionCount
    \/ SetKernel

HashSpec == HashInit /\ [][HashNext]_vars

\* What the hash is meant to cover: per cell, the source and the outputs
\* without their execution count, transient and metadata fields.
SemanticContent(doc) ==
    [i \in 1..Len(doc.cells) |->
        [source |-> doc.cells[i].source,
         outputs |-> [j \in 1..Len(doc.cells[i].outputs) |->
                        [k \in DOMAIN doc.cells[i].outputs[j]
                                \ {"execution_count", "transient", "metadata"} |->
                            doc.cells[i].outputs[j][k]]]]]

Processes == 1..2

Invocation(content, an) ==
    [pc |-> "start", content |-> content, an |-> an, content_hash |-> NoHash,
     own |-> 0, info |-> <<>>, target |-> 0, code |-> 0, kind |-> ""]

RaceInit ==
    /\ disk = <<>>
    /\ index = <<>>
    /\ \/ commits = <<>> /\ head = 0
       \/ commits = <<BaseCommit>> /\ head = 1
    /\ env = Configured
    /\ client = BareDoc
    /\ lockRec = <<>>
    /\ used = [requests |-> 0, reconfigs |-> 0]
    /\ resp = Idle
    /\ \E an1, an2 \in {"none", "sign_fail", "amend_fail"} :
          procs = <<Invocation(MkDoc(<<"a">>, 0), an1),
                    Invocation(MkDoc(<<"b">>, 0), an2)>>
    /\ others = Unmodified

\* The repository after a service call of process p, which moves to pc.
Step(p, w, next) ==
    /\ disk' = w.disk
    /\ commits' = w.commits
    /\ head' = w.head
    /\ index' = w.index
    /\ others' = w.others
    /\ procs' = [procs EXCEPT ![p] = next]
    /\ UNCHANGED <<env, client, lockRec, used, resp>>

Finish(inv, code, kind) == [inv EXCEPT !.pc = "done", !.code = code, !.kind = kind]

\* Preconditions, content hash and save_notebook_content.
StepSave(p) ==
    LET inv == procs[p]
        pre == LockPreconditionFailure(env, NotebookPath, inv.an)
    IN  /\ inv.pc = "start"
        /\ IF pre # "" THEN Step(p, World, Finish(inv, 400, pre))
           ELSE Step(p, SaveNotebookFile(World, inv.content),
                     [inv EXCEPT !.pc = "saved",
                                 !.content_hash = GenerateContentHash(inv.content)])

\* commit_and_sign_file.
StepCommit(p) ==
    LET inv == procs[p]
        c == CommitAndSignFile(World, env, inv.an)
    IN  /\ inv.pc = "saved"
        /\ IF c.hash = 0 THEN Step(p, c.w, Finish(inv, 500, "commit_failed"))
           ELSE Step(p, c.w, [inv EXCEPT !.pc = "committed", !.own = c.hash])

\* get_commit_info, and the decision it leads to.
StepCommitInfo(p) ==
    LET inv == procs[p]
        info == GetCommitInfo(World, inv.own, inv.an)
    IN  /\ inv.pc = "committed"
        /\ IF info = <<>>
           THEN Step(p, World, Finish(inv, 500, "commit_info_failed"))
           ELSE Step(p, World,
                     [inv EXCEPT !.info = info,
                                 !.pc = IF info[1].signed THEN "signed"
                                                          ELSE "unsigned"])

\* rollback_last_commit.
StepRollback(p) ==
    LET inv == procs[p]
        res == LockRollback(World, NotebookPath, inv.an, {})
    IN  /\ inv.pc = "unsigned"
        /\ Step(p, res.w,
                [Finish(inv, res.r.code, res.r.kind)
                 EXCEPT !.target = IF res.r.kind = "rolled_back" THEN head ELSE 0])

\* save_signature_metadata.
StepSaveMetadata(p) ==
    LET inv == procs[p]
        signature_metadata ==
            LockSignatureMetadata(inv.info[1], GetUserInfo(env), inv.content_hash)
    IN  /\ inv.pc = "signed"
        /\ Step(p, SaveNotebookFile(World,
                      WithSignatureMetadata(inv.content, signature_metadata)),
                [inv EXCEPT !.pc = "persisted"])

\* amend_commit_with_file, and the response.
StepAmend(p) ==
    LET inv == procs[p]
        am == AmendCommitWithFile(World, env, inv.an)
    IN  /\ inv.pc = "persisted"
        /\ Step(p, am.w,
                [Finish(inv, 200, "locked")
                 EXCEPT !.target = IF am.hash # 0 THEN head ELSE 0])

RaceNext ==
    \E p \in Processes :
        \/ StepSave(p)
        \/ StepCommit(p)
        \/ StepCommitInfo(p)
        \/ StepRollback(p)
        \/ StepSaveMetadata(p)
        \/ StepAmend(p)

RaceSpec == RaceInit /\ [][RaceNext]_vars

\* C16: the amend and the rollback of an invocation act on the commit that
\* this invocation created.
C16_OwnCommitOnly ==
    \A p \in DOMAIN procs :
        procs[p].target # 0 => procs[p].target = procs[p].own

\* The Unlock is for the document obtained from the last Lock, by an
\* operator with the identity that Lock recorded, and the key that signed
\* the lock commit is no longer in the keyring.
KeyRemovedSinceLock ==
    /\ resp.op = "unlock"
    /\ FromLastLock
    /\ env.user = lockRec[1].env.user
    /\ SubmittedSig.commit_hash \in DOMAIN commits
    /\ commits[SubmittedSig.commit_hash].key \notin env.keyring

KeyPossessionKinds ==
    {"gpg_unavailable", "no_signing_key", "key_id_unavailable",
     "no_configured_key", "key_mismatch", "cannot_sign", "verification_failed"}

C12_HashExcludesSignature ==
    (resp.op = "lock" /\ resp.code = 200) =>
        /\ disk # <<>>
        /\ GetSignatureMetadata(disk[1]) # <<>>
        /\ GetSignatureMetadata(disk[1])[1].content_hash
               = GenerateContentHash(WithoutSignatureMetadata(disk[1]))

\* C14: a Status request, whatever its outcome, leaves the commits, HEAD,
\* the index and the file on disk as they were and makes no call that
\* writes.
C14_StatusChangesNothing ==
    resp.op = "status" =>
        /\ World = Pre
        /\ resp.calls = {}

C14_Witness ==
    /\ resp.op = "status"
    /\ resp.locked
    /\ disk # <<>>
    /\ client # disk[1]
    /\ head # 0

\* The Unlock was refused for missing metadata, a missing commit id, a
\* content mismatch, a missing commit, the identity or the key possession.
UnlockAborts ==
    /\ resp.op = "unlock"
    /\ resp.kind \in {"no_signature", "no_commit_hash", "content_modified",
                      "commit_not_found", "identity_mismatch"}
                         \cup KeyPossessionKinds

\* C15: an Unlock that aborts leaves the file on disk, the commits, HEAD and
\* the index exactly as they were, so a file that was locked stays locked;
\* it made no writing call and returns no metadata.
C15_UnlockAbortNoEffect ==
    UnlockAborts =>
        /\ resp.code \in {400, 403}
        /\ World = Pre
        /\ resp.calls = {}
        /\ resp.metadata = <<>>
        /\ DiskLocked(Pre) => DiskLocked(World)

C15_Witness ==
    /\ UnlockAborts
    /\ resp.kind = "key_mismatch"
    /\ DiskLocked(World)
    /\ Pre.head # 0 /\ commits[Pre.head].parent # 0

\* The causes of an error by status class: client and precondition errors,
\* authorization errors, operational errors.
ClientCauses ==
    {"missing_fields", "not_a_repository", "no_signature", "no_commit_hash",
     "content_modified", "commit_not_found", "no_user", "rolled_back"}

LockPreconditionCauses ==
    {"gpg_unavailable", "no_signing_key", "no_configured_key", "cannot_sign"}

AuthorizationCauses == {"identity_mismatch"} \cup KeyPossessionKinds

OperationalCauses ==
    {"save_failed", "commit_failed", "commit_info_failed",
     "save_metadata_failed", "rollback_failed"}

\* C17: an error response of Lock or Unlock is a 400 exactly for a client or
\* precondition cause, a 403 exactly for an identity or key-possession
\* failure of Unlock, and a 500 exactly for a failed save, commit or
\* rollback; a malformed request or a path outside a repository gives 400
\* and a failing file write or commit in Lock gives 500.
C17_ErrorClassOfCause ==
    (resp.op \in {"lock", "unlock"} /\ resp.code # 200) =>
        /\ resp.code \in {400, 403, 500}
        /\ resp.code = 400 <=>
              \/ resp.kind \in ClientCauses
              \/ resp.op = "lock" /\ resp.kind \in LockPreconditionCauses
        /\ resp.code = 403 <=>
              (resp.op = "unlock" /\ resp.kind \in AuthorizationCauses)
        /\ resp.code = 500 <=> resp.kind \in OperationalCauses
        /\ ~WellFormed => resp.code = 400
        /\ (resp.op = "lock" /\ ~LockPreconditionFails
                /\ resp.an \in {"save_fail", "commit_fail"}) => resp.code = 500
        /\ (resp.op = "unlock" /\ WellFormed /\ IdentityDiffers
                /\ FromLastLock /\ client.hasCells) => resp.code = 403

C17_Witness ==
    /\ resp.op = "unlock"
    /\ resp.code = 500
    /\ resp.kind = "save_metadata_failed"
    /\ FromLastLock

\* The signer recorded in the file on disk.
DiskSigner(w) ==
    [name |-> Get(w.disk[1].sig[1], "user_name", ""),
     email |-> Get(w.disk[1].sig[1], "user_email", "")]

\* C18: while the file on disk is locked no Lock request succeeds, and the
\* recorded signer of the locked file does not change.
C18_LockExclusive ==
    (resp.op = "lock" /\ DiskLocked(Pre)) =>
        /\ resp.code # 200
        /\ DiskLocked(World) => DiskSigner(World) = DiskSigner(Pre)

(***************************************************************************)
(* A caller that alters the metadata it submits.  The signature metadata   *)
(* reaches Unlock inside the request body, so the caller can set any of    *)
(* its fields; here it keeps the commit_hash of the last Lock and sets     *)
(* commit_signed to false, the recorded signer to the current operator, or *)
(* content_hash to the hash of the document it now holds.                  *)
(***************************************************************************)
TamperableFields == {"commit_signed", "signer", "content_hash"}

Tampered(doc, e, fields) ==
    LET unsigned == IF "commit_signed" \in fields
                    THEN Update(doc.sig[1], [commit_signed |-> FALSE])
                    ELSE doc.sig[1]
        resigned == IF "signer" \in fields
                    THEN Update(unsigned, [user_name |-> e.user.name,
                                           user_email |-> e.user.email])
                    ELSE unsigned
        rehashed == IF "content_hash" \in fields
                    THEN Update(resigned,
                                [content_hash |-> GenerateContentHash(doc)])
                    ELSE resigned
    IN  [doc EXCEPT !.sig = <<rehashed>>]

Tamper ==
    /\ resp = Idle
    /\ lockRec # <<>>
    /\ client.hasMeta /\ client.sig = lockRec[1].doc.sig
    /\ \E fields \in SUBSET TamperableFields :
          /\ Tampered(client, env, fields) # client
          /\ client' = Tampered(client, env, fields)
    /\ UNCHANGED <<disk, commits, head, index, env, resp, lockRec, used, procs, others>>

TamperNext ==
    \/ Lock
    \/ Unlock
    \/ Deliver
    \/ EditSource
    \/ Reconfigure
    \/ Tamper

TamperSpec == Init /\ [][TamperNext]_vars

\* The submitted document with the metadata as the last Lock returned it.
Unaltered == [client EXCEPT !.sig = lockRec[1].doc.sig]

\* The Unlock is for a document whose metadata names the commit of the last
\* Lock but is not the metadata that Lock returned.
AlteredMetadataSubmitted ==
    /\ resp.op = "unlock"
    /\ lockRec # <<>>
    /\ client.hasMeta /\ client.sig # <<>>
    /\ client.sig # lockRec[1].doc.sig
    /\ Get(SubmittedSig, "commit_hash", 0) = lockRec[1].doc.sig[1].commit_hash
    /\ lockRec[1].doc.sig[1].commit_signed

\* C19: an Unlock that succeeds on altered metadata would have succeeded on
\* the unaltered metadata of the same lock, in the same repository, for the
\* same operator.
C19_AlteredMetadataGainsNothing ==
    (AlteredMetadataSubmitted /\ resp.code = 200) =>
        UnlockPost(Pre, env, resp.path, Unaltered, resp.an).r.code = 200

\* The Lock succeeded although its amend step failed.
LockAmendFailed ==
    /\ resp.op = "lock"
    /\ resp.code = 200
    /\ ~resp.amended

\* C20: a Lock whose amend fails returns success with the id of the
\* un-amended lock commit as commit_hash, in the response and in its
\* metadata, and the response carries a warning.
C20_AmendFailureWarned ==
    LockAmendFailed =>
        /\ resp.commit_hash = Len(Pre.commits) + 1
        /\ resp.metadata[1].commit_hash = Len(Pre.commits) + 1
        /\ resp.warnings # {}

(***************************************************************************)
(* Statements about the commit step and what a Lock leaves behind.         *)
(***************************************************************************)
\* C21: on every successful Lock the signed flag of the response and the
\* commit_signed of the returned metadata are the signed status of the
\* commit named by the returned commit_hash.
C21_LockFlagsMatchCommit ==
    (resp.op = "lock" /\ resp.code = 200) =>
        /\ resp.signed = IsSignedStatus(SignatureStatus(World, resp.commit_hash))
        /\ resp.metadata[1].commit_signed
               = IsSignedStatus(SignatureStatus(World, resp.commit_hash))

\* C22: when the commit step of a Lock or a Commit request reports failure
\* or returns no commit id, no commit was created: HEAD and the history are
\* those before the request.
C22_NoCommitIdNoCommit ==
    (resp.op \in {"lock", "commit"} /\ resp.kind = "commit_failed") =>
        /\ head = Pre.head
        /\ commits = Pre.commits

\* C23: a Lock that returns an error other than the rollback-failed error
\* leaves HEAD where it was before the request.
C23_LockErrorLeavesHead ==
    (resp.op = "lock" /\ resp.code # 200 /\ resp.kind # "rollback_failed") =>
        head = Pre.head

(***************************************************************************)
(* Statements about the checks of an Unlock.                               *)
(***************************************************************************)
\* The operator holds and has configured, as git prints it, the key that
\* signed commit c.
HoldsKeyOf(c) ==
    /\ c \in DOMAIN commits /\ commits[c].key # "none"
    /\ commits[c].key \in env.keyring
    /\ env.cfgKey # <<>>
    /\ \/ IsSuffix(env.cfgKey, KeyId(commits[c].key))
       \/ IsSuffix(KeyId(commits[c].key), env.cfgKey)

\* An Unlock for a lock recorded as signed, by an operator who holds the
\* key of the lock commit, that got past the content and identity checks
\* in a request where the verification of the commit signature fails: the
\* first time it is run ("verify_fail") or each time ("verify_down").
VerificationFailsInUnlock ==
    /\ SignedLockSubmitted
    /\ HoldsKeyOf(Get(SubmittedSig, "commit_hash", 0))
    /\ Len(resp.checks) = 4
    /\ resp.an \in {"verify_fail", "verify_down"}

AutoCommitFailed ==
    /\ resp.op = "unlock"
    /\ "commit" \in resp.calls
    /\ \/ resp.an \in {"commit_fail", "sign_timeout", "revparse_fail"}
       \/ "autocommit" \in resp.warnings

\* The requests that follow a Lock and an Unlock that went through: the
\* repository, the file and the caller's document are those the two
\* handlers left.
Locked == LockPost([disk |-> <<>>, commits |-> <<>>, head |-> 0, index |-> <<>>,
                    others |-> Unmodified],
                   Configured, NotebookPath, MkDoc(<<"a">>, 0), "none")

Unlocked ==
    UnlockPost(Locked.w, Configured, NotebookPath,
               WithSignatureMetadata(MkDoc(<<"a">>, 0), Locked.r.metadata[1]),
               "none")

ReunlockInit ==
    /\ Locked.r.code = 200 /\ Unlocked.r.code = 200
    /\ disk = Unlocked.w.disk
    /\ commits = Unlocked.w.commits
    /\ head = Unlocked.w.head
    /\ index = Unlocked.w.index
    /\ env = Configured
    /\ client = WithSignatureMetadata(MkDoc(<<"a">>, 0), Unlocked.r.metadata[1])
    /\ lockRec = <<[doc |-> WithSignatureMetadata(MkDoc(<<"a">>, 0),
                                                  Locked.r.metadata[1]),
                    env |-> Configured]>>
    /\ used = [requests |-> 0, reconfigs |-> 0]
    /\ resp = Idle
    /\ procs = <<>>
    /\ others = Unmodified

ReunlockSpec == ReunlockInit /\ [][Next]_vars

ChecksInOrder == <<"content", "signature", "identity", "key">>

\* The refusals that each check can end with.
RefusalsOf(check) ==
    IF check = "content" THEN {"content_modified"}
    ELSE IF check = "signature" THEN {"commit_not_found"}
    ELSE IF check = "identity" THEN {"no_user", "identity_mismatch"}
    ELSE KeyPossessionKinds

\* C26: an Unlock runs its checks in the order content, signature,
\* identity, key possession, and the first check that fails ends it: the
\* checks run are a prefix of that order, a refusal is one of the last check
\* run, and when the source changed since the Lock only the content check is
\* run, whatever the identity and the keys are.
C26_ChecksInOrder ==
    resp.op = "unlock" =>
        /\ resp.checks = SubSeq(ChecksInOrder, 1, Len(resp.checks))
        /\ (resp.code \in {400, 403} /\ resp.checks # <<>>) =>
              resp.kind \in RefusalsOf(resp.checks[Len(resp.checks)])
        /\ (SourceChangedSinceLock /\ WellFormed) =>
              /\ resp.kind = "content_modified"
              /\ resp.checks = <<"content">>
              /\ resp.key_ids = {}
              /\ World = Pre

C26_Witness ==
    /\ SourceChangedSinceLock
    /\ WellFormed
    /\ IdentityDiffers
    /\ env.keyring = {}
    /\ resp.kind = "content_modified"

\* C27: no Unlock response to a caller whose name or email differs from the
\* recorded signer names any part of a key id, of the key that signed the
\* lock commit or of the configured key; a response names one only when
\* both the name and the email of the caller are those recorded.
C27_KeyIdsOnlyToSigner ==
    resp.op = "unlock" =>
        /\ IdentityDiffers => resp.key_ids = {}
        /\ resp.key_ids # {} =>
              /\ client.hasMeta /\ client.sig # <<>>
              /\ env.user.name = Get(SubmittedSig, "user_name", "")
              /\ env.user.email = Get(SubmittedSig, "user_email", "")

\* A caller with another email asks to unlock a signed lock while no
\* signing key is configured.
C27_Witness ==
    /\ IdentityDiffers
    /\ SignedLockSubmitted
    /\ WellFormed
    /\ env.cfgKey = <<>>
    /\ resp.kind = "identity_mismatch"
    /\ resp.key_ids = {}

(***************************************************************************)
(* The classification of a commit as signed, on its own: the outcome of    *)
(* git show is varied line by line and _is_commit_signed applied to it.    *)
(* resp.pre holds the outcome, resp.signed the answer.                     *)
(***************************************************************************)
MaxLines == 3

\* What %G? can print, and the other lines of the output.
StatusCodes == {"G", "U", "X", "Y", "N", "B", "E", "R"}

OutputLines == StatusCodes \cup {"", "gpg: Signature made"}

Probed(result) ==
    [Idle EXCEPT !.op = "probe",
                 !.signed = IsCommitSignedResult(result),
                 !.pre = <<result>>]

ProbeInit ==
    /\ \E code \in StatusCodes :
          resp = Probed([timeout |-> FALSE, returncode |-> 0, stdout |-> <<code>>])
    /\ disk = <<>> /\ index = <<>> /\ commits = <<>> /\ head = 0
    /\ env = Configured
    /\ client = BareDoc
    /\ lockRec = <<>>
    /\ used = [requests |-> 0, reconfigs |-> 0]
    /\ procs = <<>>
    /\ others = Unmodified

ProbeVariant(result) ==
    /\ resp' = Probed(result)
    /\ UNCHANGED <<disk, commits, head, index, env, client, lockRec, used, procs, others>>

\* The command prints one more line, before or after what it printed.
ShowPrintsBefore ==
    /\ Len(resp.pre[1].stdout) < MaxLines
    /\ \E line \in OutputLines :
          ProbeVariant([resp.pre[1] EXCEPT !.stdout = <<line>> \o @])

ShowPrintsAfter ==
    /\ Len(resp.pre[1].stdout) < MaxLines
    /\ \E line \in OutputLines :
          ProbeVariant([resp.pre[1] EXCEPT !.stdout = Append(@, line)])

ShowPrintsNothing == ProbeVariant([resp.pre[1] EXCEPT !.stdout = <<>>])

ShowExits ==
    \E code \in {0, 1, 128} : ProbeVariant([resp.pre[1] EXCEPT !.returncode = code])

ShowTimesOut ==
    ProbeVariant([resp.pre[1] EXCEPT !.timeout = ~@])

ProbeNext ==
    \/ ShowPrintsBefore
    \/ ShowPrintsAfter
    \/ ShowPrintsNothing
    \/ ShowExits
    \/ ShowTimesOut

ProbeSpec == ProbeInit /\ [][ProbeNext]_vars

\* The status the command reported: its last line that is not blank.
ReportedStatus(result) ==
    LET out == result.stdout
        written == {i \in 1..Len(out) : out[i] # ""}
    IN  IF written = {} THEN "none"
        ELSE out[CHOOSE i \in written : \A j \in written : j <= i]

\* C29: a commit is classified signed exactly when the query succeeded and
\* the status it reported is G, U, X or Y; every other status, a failed or
\* timed-out query and an empty output classify it as not signed.
C29_SignedIffGoodStatus ==
    resp.op = "probe" =>
        (resp.signed <=>
            /\ ~Pre.timeout
            /\ Pre.returncode = 0
            /\ ReportedStatus(Pre) \in {"G", "U", "X", "Y"})

\* An expired-key signature behind the output of gpg is classified signed.
C29_Witness ==
    /\ resp.op = "probe"
    /\ Pre.stdout = <<"gpg: Signature made", "X", "">>
    /\ Pre.returncode = 0 /\ ~Pre.timeout
    /\ resp.signed

(***************************************************************************)
(* The commit step on its own: a file is written, the configuration        *)
(* changed, and commit_and_sign_file run on what is there.                 *)
(***************************************************************************)
CommitStepAnomalies ==
    {"none", "sign_fail", "sign_timeout", "commit_fail", "revparse_fail",
     "show_fail"}

WriteFile ==
    /\ resp = Idle
    /\ \E d \in InitialDocs : d # client /\ client' = d /\ disk' = <<d>>
    /\ UNCHANGED <<commits, head, index, env, resp, lockRec, used, procs, others>>

CommitStep ==
    /\ resp = Idle
    /\ used.requests < MaxRequests
    /\ \E an \in CommitStepAnomalies :
          LET c == CommitAndSignFile(World, env, an)
          IN  /\ disk' = c.w.disk
              /\ commits' = c.w.commits
              /\ head' = c.w.head
              /\ index' = c.w.index
              /\ others' = c.w.others
              /\ resp' = [Idle EXCEPT !.op = "commit_step", !.an = an,
                                      !.commit_hash = c.hash,
                                      !.signed = c.signed,
                                      !.attempts = c.attempts,
                                      !.pre = <<World>>]
    /\ used' = [used EXCEPT !.requests = @ + 1]
    /\ UNCHANGED <<env, client, lockRec, procs>>

\* amend_commit_with_file applied to the repository as it stands.
AmendStepAnomalies ==
    {"none", "amend_config_fail", "amend_fail", "amend_revparse_fail"}

AmendStep ==
    /\ resp = Idle
    /\ used.requests < MaxRequests
    /\ head # 0
    /\ \E an \in AmendStepAnomalies :
          LET a == AmendCommitWithFile(World, env, an)
          IN  /\ disk' = a.w.disk
              /\ commits' = a.w.commits
              /\ head' = a.w.head
              /\ index' = a.w.index
              /\ others' = a.w.others
              /\ resp' = [Idle EXCEPT !.op = "amend_step", !.an = an,
                                      !.commit_hash = a.hash,
                                      !.attempts = a.attempts,
                                      !.pre = <<World>>]
    /\ used' = [used EXCEPT !.requests = @ + 1]
    /\ UNCHANGED <<env, client, lockRec, procs>>

CommitStepNext ==
    \/ WriteFile
    \/ CommitStep
    \/ AmendStep
    \/ Deliver
    \/ Reconfigure

CommitStepSpec == Init /\ [][CommitStepNext]_vars

\* The number of attempts of one kind among those made.
Attempts(kind) == Cardinality({i \in 1..Len(resp.attempts) : resp.attempts[i] = kind})

\* The signed attempt was made and the step did not return a signed commit.
SignedAttemptFailed ==
    /\ "signed" \in {resp.attempts[i] : i \in 1..Len(resp.attempts)}
    /\ \/ resp.commit_hash = 0
       \/ commits[resp.commit_hash].key = "none"

\* C30: in a commit step that got to commit, with signing configured the
\* signed commit is attempted exactly once and first, and when it fails the
\* unsigned commit is attempted exactly once; without signing configured
\* only the unsigned commit is attempted, once; the signed flag of a
\* returned commit is what probing that commit gives, false for a commit of
\* the unsigned attempt.
C30_CommitAttempts ==
    (resp.op = "commit_step" /\ Pre.disk # <<>>) =>
        /\ env.cfgKey # <<>> =>
              /\ Attempts("signed") = 1
              /\ resp.attempts[1] = "signed"
              /\ Attempts("unsigned") = IF SignedAttemptFailed THEN 1 ELSE 0
        /\ env.cfgKey = <<>> => resp.attempts = <<"unsigned">>
        /\ resp.commit_hash # 0 =>
              /\ resp.signed = IsCommitSigned(World, resp.commit_hash, resp.an)
              /\ commits[resp.commit_hash].key = "none" => ~resp.signed

(***************************************************************************)
(* Termination.  One invocation is followed through the external calls of  *)
(* its handler, in the order the handler makes them.  A call returns, or   *)
(* it hangs; a call that hangs ends as a failure when it is run under a    *)
(* timeout, and does not end when it is not.  procs holds the invocation:  *)
(* the operation, the position of the call being made, whether the         *)
(* handler is calling, is waiting on a call that hangs, or has responded,  *)
(* and whether it has sat through a timeout.                               *)
(***************************************************************************)
LockCalls ==
    <<"get_user_info", "is_gpg_available", "has_signing_key",
      "get_configured_signing_key", "can_sign_with_key",
      "commit_and_sign_file", "get_commit_info", "amend_commit_with_file",
      "rollback_last_commit">>

UnlockCalls ==
    <<"verify_commit_signature", "get_user_info", "is_gpg_available",
      "has_signing_key", "get_commit_signing_key_id",
      "get_configured_signing_key", "can_sign_with_key",
      "verify_commit_signature", "commit_and_sign_file",
      "amend_commit_with_file">>

CallsOf(op) == IF op = "lock" THEN LockCalls ELSE UnlockCalls

\* The calls that run gpg through python-gnupg, which takes no timeout; the
\* others run git through subprocess.run with a timeout.
WithoutTimeout == {"is_gpg_available", "has_signing_key", "can_sign_with_key"}

\* What a call can return to the handler.
Outcomes(op, pos) ==
    IF op = "lock" /\ pos = 7 THEN {"ok", "unsigned", "failed"}
    ELSE {"ok", "failed"}

\* The position of the call the handler makes next; 0: it responds.
NextCall(op, pos, outcome) ==
    IF op = "lock"
    THEN IF pos = 7 /\ outcome = "unsigned" THEN 9
         ELSE IF pos \in {8, 9} THEN 0
         ELSE IF outcome = "ok" THEN pos + 1
         ELSE 0
    ELSE IF pos = 1 THEN 2
         ELSE IF pos = 10 THEN 0
         ELSE IF outcome = "ok" THEN pos + 1
         ELSE 0

\* The status code of the response written after the call at pos.
CodeAfter(op, pos, outcome) ==
    IF op = "lock"
    THEN IF pos = 8 THEN 200
         ELSE IF pos = 9 THEN (IF outcome = "ok" THEN 400 ELSE 500)
         ELSE IF pos <= 5 THEN 400
         ELSE 500
    ELSE IF pos >= 9 THEN 200
         ELSE IF pos = 2 THEN 400
         ELSE 403

HangInit ==
    /\ disk = <<>> /\ index = <<>> /\ commits = <<>> /\ head = 0
    /\ env = Configured
    /\ client = BareDoc
    /\ lockRec = <<>>
    /\ used = [requests |-> 0, reconfigs |-> 0]
    /\ resp = Idle
    /\ procs = <<>>
    /\ others = Unmodified

Receive ==
    /\ procs = <<>>
    /\ used.requests < MaxRequests
    /\ \E op \in {"lock", "unlock"} :
          procs' = <<[op |-> op, pos |-> 1, status |-> "calling",
                      waited |-> FALSE]>>
    /\ used' = [used EXCEPT !.requests = @ + 1]
    /\ UNCHANGED <<disk, commits, head, index, env, client, lockRec, resp, others>>

\* The handler goes on with the outcome of the call at its position.
Proceed(outcome, waited) ==
    LET inv == [procs[1] EXCEPT !.waited = waited]
        next == NextCall(inv.op, inv.pos, outcome)
    IN  /\ IF next = 0
           THEN /\ procs' = <<[inv EXCEPT !.status = "responded"]>>
                /\ resp' = [Idle EXCEPT !.op = inv.op,
                                        !.code = CodeAfter(inv.op, inv.pos, outcome),
                                        !.kind = CallsOf(inv.op)[inv.pos]]
           ELSE /\ procs' = <<[inv EXCEPT !.pos = next, !.status = "calling"]>>
                /\ resp' = resp
        /\ UNCHANGED <<disk, commits, head, index, env, client, lockRec, used, others>>

CallReturns ==
    /\ procs # <<>>
    /\ procs[1].status = "calling"
    /\ \E outcome \in Outcomes(procs[1].op, procs[1].pos) :
          Proceed(outcome, procs[1].waited)

CallHangs ==
    /\ procs # <<>>
    /\ procs[1].status = "calling"
    /\ procs' = <<[procs[1] EXCEPT !.status = "hung"]>>
    /\ UNCHANGED <<disk, commits, head, index, env, client, lockRec, used, resp, others>>

\* subprocess.run kills the command at its timeout; the service returns a
\* failure.
CallTimesOut ==
    /\ procs # <<>>
    /\ procs[1].status = "hung"
    /\ CallsOf(procs[1].op)[procs[1].pos] \notin WithoutTimeout
    /\ Proceed("failed", TRUE)

\* The response is sent and the invocation is over.
Respond ==
    /\ procs # <<>>
    /\ procs[1].status = "responded"
    /\ procs' = <<>>
    /\ resp' = Idle
    /\ UNCHANGED <<disk, commits, head, index, env, client, lockRec, used, others>>

HangNext ==
    \/ Receive
    \/ CallReturns
    \/ CallHangs
    \/ CallTimesOut
    \/ Respond

\* The server keeps running: a step that can be taken is taken.
HangSpec == HangInit /\ [][HangNext]_vars /\ WF_vars(HangNext)

\* C28: every Lock and Unlock invocation eventually produces its response,
\* even when an external call hangs.
C28_EveryInvocationResponds ==
    (procs # <<>>) ~> (procs # <<>> /\ procs[1].status = "responded")

\* ------------------------------------------------------------------------
\* The amend step's signing policy (under CommitStepSpec).

AmendAttempted(kind) == kind \in {resp.attempts[i] : i \in 1..Len(resp.attempts)}

\* C31 (as stated): when signing is configured and the signed amend fails,
\* an unsigned amend is attempted, so a failure is reported only after the
\* unsigned amend was tried too.
C31_AmendFallsBack ==
    (resp.op = "amend_step" /\ AmendAttempted("signed") /\ resp.commit_hash = 0)
        => AmendAttempted("unsigned")

\* C31 (amended): the amend step runs one amend command.  When signing is
\* configured that command is the signed amend: no unsigned amend follows
\* it, its failure is the step's failure, and an amended commit it reports
\* is signed.
C31_AmendSingleAttempt ==
    resp.op = "amend_step" =>
        /\ Len(resp.attempts) <= 1
        /\ AmendAttempted("signed") =>
              /\ ~AmendAttempted("unsigned")
              /\ resp.commit_hash # 0 => commits[resp.commit_hash].key # "none"

\* A signed amend that failed for want of the key, on a file an unsigned
\* amend would have committed.
C31_Witness ==
    /\ resp.op = "amend_step"
    /\ resp.an = "none"
    /\ resp.attempts = <<"signed">>
    /\ resp.commit_hash = 0
    /\ head = resp.pre[1].head
    /\ disk # <<>>
    /\ disk # TreeOf(World, commits[head].parent)


\* ------------------------------------------------------------------------
\* The shape of the persisted signature metadata.

RecordFields ==
    {"locked", "commit_hash", "commit_signed", "user_name", "user_email",
     "timestamp", "content_hash", "commit_message", "gpg_available"}

PersistedRecords == IF disk = <<>> THEN <<>> ELSE GetSignatureMetadata(disk[1])

\* C32: the signature metadata persisted in the document is absent or has
\* every field of the record (locked, commit_hash, commit_signed, user_name,
\* user_email, timestamp, content_hash, commit_message, gpg_available).
C32_PersistedRecordComplete ==
    \A i \in 1..Len(PersistedRecords) :
        RecordFields \subseteq DOMAIN PersistedRecords[i]


\* ------------------------------------------------------------------------
\* Unlock of a document that is not locked (under ReunlockSpec).

SubmittedUnlocked ==
    /\ GetSignatureMetadata(client) # <<>>
    /\ "locked" \in DOMAIN SubmittedSig
    /\ SubmittedSig.locked = FALSE

\* C33: an Unlock request on a document whose signature metadata has
\* locked = false does not succeed and creates no commit.
C33_UnlockOnlyFromLocked ==
    (resp.op = "unlock" /\ SubmittedUnlocked) =>
        /\ resp.code # 200
        /\ commits = Pre.commits


\* ------------------------------------------------------------------------
\* The commit ids a successful request reports.

\* C34: after a successful Lock the commit_hash of the metadata persisted in
\* the document on disk equals the commit_hash returned to the caller, and
\* both identify the commit at HEAD, whether the amend succeeded or failed.
C34_LockCommitIdsAgree ==
    (resp.op = "lock" /\ resp.code = 200) =>
        /\ PersistedRecords # <<>>
        /\ PersistedRecords[1].commit_hash = resp.commit_hash
        /\ resp.commit_hash = head

\* C35: after a successful Unlock whose auto-commit succeeded, the
\* commit_hash returned and the unlock_commit_hash of the returned metadata
\* identify the commit at HEAD, also when the second save and amend succeeded.
C35_UnlockCommitIdIsHead ==
    (resp.op = "unlock" /\ resp.code = 200 /\ resp.commit_hash # 0) =>
        /\ resp.commit_hash = head
        /\ resp.metadata[1].unlock_commit_hash = head


\* ------------------------------------------------------------------------
\* History depth: the number of commits reachable from HEAD.

RECURSIVE Depth(_, _)
Depth(cs, h) == IF h = 0 THEN 0 ELSE 1 + Depth(cs, cs[h].parent)

HistoryDepth(w) == Depth(w.commits, w.head)

\* C40: a successful Lock leaves exactly one commit more in the history
\* than there was before the request, whether or not the amend succeeded; a
\* successful Unlock at most one more; a Lock that ended in a successful
\* rollback exactly as many as before.
C40_OneCommitPerTransition ==
    /\ (resp.op = "lock" /\ resp.code = 200) =>
          HistoryDepth(World) = HistoryDepth(Pre) + 1
    /\ (resp.op = "unlock" /\ resp.code = 200) =>
          /\ HistoryDepth(World) >= HistoryDepth(Pre)
          /\ HistoryDepth(World) <= HistoryDepth(Pre) + 1
    /\ (resp.op = "lock" /\ resp.kind = "rolled_back") =>
          HistoryDepth(World) = HistoryDepth(Pre)

\* A Lock whose unsigned commit was rolled back, on a history of one commit.
C40_Witness ==
    /\ resp.op = "lock"
    /\ resp.kind = "rolled_back"
    /\ Len(commits) = Len(Pre.commits) + 1
    /\ HistoryDepth(World) = 1


\* ------------------------------------------------------------------------
\* Content hashing of a document without a cell list.

\* C39: hashing a malformed document (one without a list of cells) ends in
\* an error: a Lock never stores or returns a content hash computed over
\* anything but the cells-only projection.
C39_MalformedInputNotHashed ==
    (resp.op = "lock" /\ resp.metadata # <<>>) =>
        /\ client.hasCells
        /\ resp.metadata[1].content_hash.whole = <<>>


\* ------------------------------------------------------------------------
\* The key match of Unlock and the key whose signing capability is tested.
\* KeyMatchSpec applies the configured-key steps of the key validation to
\* key-ids of every written form: fingerprint, 16-digit id, 8-digit id,
\* lower case.

KeyIdForms ==
    UNION {{Fingerprint(k), KeyId(k), SubSeq(Fingerprint(k), 3, 3)} : k \in Keys}
        \cup {LowerKeyId1}

\* A validation that tests the signing capability of the configured key.
KeyValidationTestsConfigured(e, original_signing_key_id, an) ==
    LET current_configured_key == GetConfiguredSigningKey(e)
    IN  IF current_configured_key = <<>>
        THEN [kind |-> "no_configured_key", tested |-> <<>>]
        ELSE IF ~KeysMatch(current_configured_key, original_signing_key_id)
        THEN [kind |-> "key_mismatch", tested |-> <<>>]
        ELSE [kind |-> IF CanSignWithKey(e, current_configured_key, an)
                       THEN "" ELSE "cannot_sign",
              tested |-> <<current_configured_key>>]

\* The steps of the key validation that follow the reading of the original
\* key-id: configured key, match, signing test.  tested: the key-id handed
\* to can_sign_with_key.
KeyValidation(e, original_signing_key_id, an) ==
    LET current_configured_key == GetConfiguredSigningKey(e)
    IN  IF current_configured_key = <<>>
        THEN [kind |-> "no_configured_key", tested |-> <<>>]
        ELSE IF ~KeysMatch(current_configured_key, original_signing_key_id)
        THEN [kind |-> "key_mismatch", tested |-> <<>>]
        ELSE [kind |-> IF CanSignWithKey(e, original_signing_key_id, an)
                       THEN "" ELSE "cannot_sign",
              tested |-> <<original_signing_key_id>>]

KeyMatchInit ==
    /\ resp = Idle
    /\ env = Configured
    /\ disk = <<>> /\ index = <<>> /\ commits = <<>> /\ head = 0
    /\ client = BareDoc
    /\ lockRec = <<>>
    /\ used = [requests |-> 0, reconfigs |-> 0]
    /\ procs = <<>>
    /\ others = Unmodified

\* git config user.signingkey is set to a key-id of some form.
ConfigureKey ==
    /\ \E key_id \in KeyIdForms \ {env.cfgKey} :
          env' = [env EXCEPT !.cfgKey = key_id]
    /\ resp' = Idle
    /\ UNCHANGED <<disk, commits, head, index, client, lockRec, used, procs, others>>

\* The keyring gains or loses its key.
ChangeKeyring ==
    /\ \E ring \in Keyrings \ {env.keyring} :
          env' = [env EXCEPT !.keyring = ring]
    /\ resp' = Idle
    /\ UNCHANGED <<disk, commits, head, index, client, lockRec, used, procs, others>>

ValidateKey ==
    /\ \E original_signing_key_id \in KeyIdForms, an \in {"none", "sign_probe_fail"} :
          LET v == KeyValidation(env, original_signing_key_id, an)
          IN  resp' = [Idle EXCEPT !.op = "key_validation", !.an = an,
                                   !.kind = v.kind, !.tested = v.tested,
                                   !.pre = <<original_signing_key_id>>]
    /\ UNCHANGED <<disk, commits, head, index, env, client, lockRec, used, procs, others>>

KeyMatchNext ==
    \/ ConfigureKey
    \/ ChangeKeyring
    \/ ValidateKey

KeyMatchSpec == KeyMatchInit /\ [][KeyMatchNext]_vars

EqualOrSuffix(a, b) == a = b \/ IsSuffix(a, b) \/ IsSuffix(b, a)

MatchPassed == resp.op = "key_validation" /\ resp.kind \in {"", "cannot_sign"}

\* C38 (as stated): the match holds exactly when the configured and the
\* original key-id are equal or one is a suffix of the other, it is
\* reflexive and symmetric, and the key whose signing capability is then
\* tested is the configured key.
C38_TestedKeyIsConfigured ==
    resp.op = "key_validation" =>
        /\ MatchPassed <=> EqualOrSuffix(env.cfgKey, resp.pre[1])
        /\ KeysMatch(env.cfgKey, env.cfgKey)
        /\ KeysMatch(env.cfgKey, resp.pre[1]) <=> KeysMatch(resp.pre[1], env.cfgKey)
        /\ MatchPassed => resp.tested = <<env.cfgKey>>

\* C38 (amended): the same match, reflexive and symmetric; the key whose
\* signing capability is then tested is the original signing key-id read
\* from the lock commit, which is the configured key-id only when the two
\* are written alike.
C38_TestedKeyIsOriginal ==
    resp.op = "key_validation" =>
        /\ MatchPassed <=> EqualOrSuffix(env.cfgKey, resp.pre[1])
        /\ KeysMatch(env.cfgKey, env.cfgKey)
        /\ KeysMatch(env.cfgKey, resp.pre[1]) <=> KeysMatch(resp.pre[1], env.cfgKey)
        /\ MatchPassed => resp.tested = <<resp.pre[1]>>
        /\ ~MatchPassed => resp.tested = <<>>

\* The fingerprint is configured, the commit names the 16-digit id, and the
\* signing test passed.
C38_Witness ==
    /\ resp.op = "key_validation"
    /\ resp.kind = ""
    /\ env.cfgKey = Fingerprint("K1")
    /\ resp.pre[1] = KeyId("K1")
    /\ resp.tested = <<KeyId("K1")>>


\* ------------------------------------------------------------------------
\* Lock and Unlock in a repository where another tracked file is being
\* worked on: FrameSpec adds edits of that file in the working tree and
\* git add of it to the Lock and Unlock requests.

MaxOtherEdits == 1

\* The other file is modified in the working tree.
EditOtherFile ==
    /\ resp = Idle
    /\ others.disk < MaxOtherEdits
    /\ others' = [others EXCEPT !.disk = @ + 1]
    /\ UNCHANGED <<disk, commits, head, index, env, client, lockRec, used, resp, procs>>

\* git add of the other file.
StageOtherFile ==
    /\ resp = Idle
    /\ others.index # others.disk
    /\ others' = [others EXCEPT !.index = others.disk]
    /\ UNCHANGED <<disk, commits, head, index, env, client, lockRec, used, resp, procs>>

FrameNext ==
    \/ Lock
    \/ Unlock
    \/ Deliver
    \/ EditOtherFile
    \/ StageOtherFile

FrameSpec == Init /\ [][FrameNext]_vars

\* The commits the request in flight added to the object store.
CreatedCommits == (Len(Pre.commits) + 1)..Len(commits)

\* C36: a commit created by a Lock or an Unlock contains changes to the
\* notebook file only: the other file is in it as it is in its parent,
\* also when a change of the other file was staged before the request.
C36_CommitTouchesGivenFileOnly ==
    resp.op \in {"lock", "unlock"} =>
        \A c \in CreatedCommits :
            commits[c].other = OtherOf(World, commits[c].parent)

\* C37: after the rollback of a failed Lock, the uncommitted modifications
\* of the other tracked file that existed before the request are still in
\* the working tree.
C37_RollbackKeepsOtherChanges ==
    (resp.op = "lock" /\ resp.kind = "rolled_back") =>
        others.disk = Pre.others.disk


====
